---- MODULE Spec2Model ----
(***************************************************************************)
(* kenny-io/mtree: a whitelist of e-mail addresses committed to by a       *)
(* Merkle root (src/index.js).  index.js hashes the e-mails with           *)
(* keccak256, hands the hex digests to merkletreejs' MerkleTree with       *)
(* {sortPairs: true}, reads the root and derives proofs with getProof.     *)
(*                                                                         *)
(* The tree algorithm itself is the merkletreejs dependency with its       *)
(* default options (duplicateOdd, hashLeaves, sortLeaves, isBitcoinTree    *)
(* all off).  Its behaviour on an odd layer is fixed by the output that    *)
(* src/README.md:78-83 records for email2@example.com: the second step,    *)
(* 332a04f7..., is keccak256("email3@example.com") itself, i.e. the        *)
(* unpaired third leaf carried up unhashed.                                *)
(*                                                                         *)
(* Byte strings are sequences.  An e-mail is a one-element sequence <<i>>. *)
(* keccak256 is collision free: keccak256(m) is the one-element sequence   *)
(* <<m>>, so a digest is a "fixed length" (1) sequence and Buffer.concat   *)
(* of two digests is their concatenation \o, of length 2.                  *)
(***************************************************************************)
EXTENDS Integers, Sequences, FiniteSets, TLC

\* ---- bounds ----
NumItems == 3        \* e-mails that may be whitelisted: <<1>> .. <<NumItems>>
MaxLen   == 4        \* longest whitelist

Emails     == { <<i>> : i \in 1..NumItems }
\* one more address, never whitelisted
AllEmails  == { <<i>> : i \in 1..(NumItems + 1) }

RECURSIVE SeqsUpTo(_, _)
SeqsUpTo(S, n) ==
  IF n = 0 THEN { <<>> }
  ELSE LET shorter == SeqsUpTo(S, n - 1)
       IN  shorter \cup { Append(s, e) : s \in { t \in shorter : Len(t) = n - 1 }, e \in S }

Whitelists == SeqsUpTo(Emails, MaxLen)

VARIABLES
  whitelistedEmails,  \* the input item sequence
  sortPairs,          \* the sortPairs option handed to MerkleTree
  pc,                 \* "start" | "built" | "proved" | "verified"
  leafNodes,          \* hex strings of the e-mail digests
  layers,             \* merkleTree.layers, leaves first
  rootHash,           \* hex string of the root
  emailToVerify,      \* the e-mail a proof was asked for
  proof,              \* generateMerkleProof's result: hex strings
  vProof,             \* the proof steps handed to the verifier
  vRoot,              \* the root handed to the verifier
  tamper,             \* "none" | "sibling" | "root"
  result              \* the verifier's answer

vars == << whitelistedEmails, sortPairs, pc, leafNodes, layers, rootHash,
           emailToVerify, proof, vProof, vRoot, tamper, result >>

\* ---- keccak256 and Buffer ----

\* keccak256(m): injective, output of length 1
keccak256(m) == << m >>

\* Buffer.toString('hex')
ToStringHex(buf) == [hex |-> buf]

\* merkletreejs bufferify on a hex string: back to the bytes
bufferify(s) == s.hex

\* first "byte" of a digest: scatters the digests so that the byte order
\* is unrelated to the order of the inputs
RECURSIVE Byte0(_)
Byte0(d) ==
  LET m == d[1]
  IN  IF Len(m) = 1 THEN (m[1] * 5) % 7
      ELSE (Byte0(<< m[1] >>) * 3 + Byte0(<< m[2] >>) + 1) % 7

\* remaining bytes: any fixed total order on the digests
RECURSIVE RestCompare(_, _)
RestCompare(a, b) ==
  LET ma == a[1]
      mb == b[1]
  IN  IF Len(ma) # Len(mb) THEN (IF Len(ma) < Len(mb) THEN -1 ELSE 1)
      ELSE IF Len(ma) = 1
           THEN (IF ma[1] < mb[1] THEN -1 ELSE IF ma[1] > mb[1] THEN 1 ELSE 0)
           ELSE LET c == RestCompare(<< ma[1] >>, << mb[1] >>)
                IN  IF c # 0 THEN c ELSE RestCompare(<< ma[2] >>, << mb[2] >>)

\* a comparison that stops after the first byte
BufferCompare_firstByte(a, b) ==
  IF a = b THEN 0
  ELSE IF Len(a) = 0 THEN -1
  ELSE IF Len(b) = 0 THEN 1
  ELSE IF Byte0(a) # Byte0(b) THEN (IF Byte0(a) < Byte0(b) THEN -1 ELSE 1)
  ELSE 0

\* Buffer.compare(a, b): byte-wise, -1 | 0 | 1; a shorter prefix sorts first
BufferCompare(a, b) ==
  IF a = b THEN 0
  ELSE IF Len(a) = 0 THEN -1
  ELSE IF Len(b) = 0 THEN 1
  ELSE IF Byte0(a) # Byte0(b) THEN (IF Byte0(a) < Byte0(b) THEN -1 ELSE 1)
  ELSE RestCompare(a, b)

\* ---- MerkleTree (merkletreejs, default options) ----

\* the pair is never sorted
combine_unsorted(left, right, sp) ==
  keccak256(left \o right)

\* hashFn(Buffer.concat(combined)), combined sorted when sortPairs
combine(left, right, sp) ==
  IF sp /\ BufferCompare(left, right) = 1
  THEN keccak256(right \o left)
  ELSE keccak256(left \o right)

\* an unpaired last node is hashed with a copy of itself
nextLayer_duplicateOdd(nodes, sp) ==
  [ k \in 1..((Len(nodes) + 1) \div 2) |->
      IF 2 * k <= Len(nodes)
      THEN combine(nodes[2 * k - 1], nodes[2 * k], sp)
      ELSE combine(nodes[2 * k - 1], nodes[2 * k - 1], sp) ]

\* the operands of a pair are concatenated right before left
nextLayer_swapped(nodes, sp) ==
  [ k \in 1..((Len(nodes) + 1) \div 2) |->
      IF 2 * k <= Len(nodes)
      THEN combine(nodes[2 * k], nodes[2 * k - 1], sp)
      ELSE nodes[2 * k - 1] ]

\* one pass of the for loop of createHashes: an unpaired last node is pushed
\* to the next layer as it is
nextLayer(nodes, sp) ==
  [ k \in 1..((Len(nodes) + 1) \div 2) |->
      IF 2 * k <= Len(nodes)
      THEN combine(nodes[2 * k - 1], nodes[2 * k], sp)
      ELSE nodes[2 * k - 1] ]

\* a lone leaf is hashed with itself once more
RECURSIVE createHashes_hashLone(_, _)
createHashes_hashLone(nodes, sp) ==
  IF Len(nodes) = 0 THEN << nodes >>
  ELSE IF Len(nodes) = 1 THEN << nodes, << combine(nodes[1], nodes[1], sp) >> >>
  ELSE << nodes >> \o createHashes_hashLone(nextLayer(nodes, sp), sp)

\* createHashes: this.layers = [nodes]; while (nodes.length > 1) ...
RECURSIVE createHashes(_, _)
createHashes(nodes, sp) ==
  IF Len(nodes) <= 1 THEN << nodes >>
  ELSE << nodes >> \o createHashes(nextLayer(nodes, sp), sp)

\* new MerkleTree(leaves, keccak256, {sortPairs}): leaves bufferified, not
\* hashed again, not sorted
MerkleTree(leaves, sp) ==
  createHashes([ i \in 1..Len(leaves) |-> bufferify(leaves[i]) ], sp)

\* an all-zero digest, not the empty buffer, for the empty tree
getRoot_zeroDigest(ls) ==
  IF Len(ls[Len(ls)]) = 0 THEN keccak256(<< 0 >>) ELSE ls[Len(ls)][1]

\* getRoot(): the first node of the top layer, or the empty buffer
getRoot(ls) ==
  IF Len(ls[Len(ls)]) = 0 THEN <<>> ELSE ls[Len(ls)][1]

\* the search stops at the first matching leaf
leafIndex_first(ls, leaf) ==
  LET matches == { i \in 1..Len(ls[1]) : BufferCompare(leaf, ls[1][i]) = 0 }
  IN  IF matches = {} THEN -1
      ELSE (CHOOSE i \in matches : \A j \in matches : i <= j) - 1

\* index starts at 0 instead of -1
leafIndex_zero(ls, leaf) ==
  LET matches == { i \in 1..Len(ls[1]) : BufferCompare(leaf, ls[1][i]) = 0 }
  IN  IF matches = {} THEN 0
      ELSE (CHOOSE i \in matches : \A j \in matches : j <= i) - 1

\* the index loop of getProof: no break, so the last matching leaf wins;
\* -1 when no leaf matches
leafIndex(ls, leaf) ==
  LET matches == { i \in 1..Len(ls[1]) : BufferCompare(leaf, ls[1][i]) = 0 }
  IN  IF matches = {} THEN -1
      ELSE (CHOOSE i \in matches : \A j \in matches : j <= i) - 1

\* the sibling is always taken on the right
RECURSIVE proofFrom_alwaysRight(_, _, _)
proofFrom_alwaysRight(ls, i, index) ==
  IF i > Len(ls) THEN <<>>
  ELSE LET layer       == ls[i]
           isRightNode == index % 2 = 1
           pairIndex   == index + 1
           step        == IF pairIndex < Len(layer)
                          THEN << [ position |-> IF isRightNode THEN "left" ELSE "right",
                                    data     |-> layer[pairIndex + 1] ] >>
                          ELSE <<>>
       IN  step \o proofFrom_alwaysRight(ls, i + 1, index \div 2)

\* an unpaired last node is its own sibling
RECURSIVE proofFrom_selfSibling(_, _, _)
proofFrom_selfSibling(ls, i, index) ==
  IF i > Len(ls) THEN <<>>
  ELSE LET layer       == ls[i]
           isRightNode == index % 2 = 1
           pairIndex   == IF isRightNode THEN index - 1
                          ELSE IF index = Len(layer) - 1 /\ i < Len(ls) THEN index
                          ELSE index + 1
           step        == IF pairIndex < Len(layer)
                          THEN << [ position |-> IF isRightNode THEN "left" ELSE "right",
                                    data     |-> layer[pairIndex + 1] ] >>
                          ELSE <<>>
       IN  step \o proofFrom_selfSibling(ls, i + 1, index \div 2)

\* the layer loop of getProof from layer i (1-based) with 0-based index
RECURSIVE proofFrom(_, _, _)
proofFrom(ls, i, index) ==
  IF i > Len(ls) THEN <<>>
  ELSE LET layer       == ls[i]
           isRightNode == index % 2 = 1
           pairIndex   == IF isRightNode THEN index - 1 ELSE index + 1
           step        == IF pairIndex < Len(layer)
                          THEN << [ position |-> IF isRightNode THEN "left" ELSE "right",
                                    data     |-> layer[pairIndex + 1] ] >>
                          ELSE <<>>
       IN  step \o proofFrom(ls, i + 1, index \div 2)

\* getProof(leaf): [] when the leaf is not in the tree
getProof(ls, leaf) ==
  LET index == leafIndex(ls, bufferify(leaf))
  IN  IF index <= -1 THEN <<>> ELSE proofFrom(ls, 1, index)

\* ---- src/index.js ----

\* generateMerkleProof(email)
generateMerkleProof(ls, email) ==
  LET hashedEmail == ToStringHex(keccak256(email))
      p           == getProof(ls, hashedEmail)
  IN  [ j \in 1..Len(p) |-> ToStringHex(p[j].data) ]

\* ---- verification ----

\* one step of the verifier: sort the pair when sortPairs, else place the
\* sibling on the side the step names
verifyStep(current, step, sp) ==
  IF sp
  THEN (IF BufferCompare(current, step.data) = -1
        THEN keccak256(current \o step.data)
        ELSE keccak256(step.data \o current))
  ELSE (IF step.position = "left"
        THEN keccak256(step.data \o current)
        ELSE keccak256(current \o step.data))

RECURSIVE reduceProof(_, _, _)
reduceProof(current, p, sp) ==
  IF Len(p) = 0 THEN current
  ELSE reduceProof(verifyStep(current, Head(p), sp), Tail(p), sp)

\* verify(leafItem, proof, root, sortPairs)
verify(leafItem, p, root, sp) ==
  BufferCompare(reduceProof(keccak256(leafItem), p, sp), root) = 0

\* the steps a holder of generateMerkleProof's hex strings hands to the
\* verifier: the data parsed back, the side as getProof reported it
proofSteps(ls, email, hexProof) ==
  LET p == getProof(ls, ToStringHex(keccak256(email)))
  IN  [ j \in 1..Len(hexProof) |->
          [ position |-> p[j].position, data |-> bufferify(hexProof[j]) ] ]

\* ---- the state machine ----

NoProof == <<>>

Init ==
  /\ whitelistedEmails \in Whitelists
  /\ sortPairs \in BOOLEAN
  /\ pc = "start"
  /\ leafNodes = <<>>
  /\ layers = <<>>
  /\ rootHash = ToStringHex(<<>>)
  /\ emailToVerify = <<>>
  /\ proof = NoProof
  /\ vProof = NoProof
  /\ vRoot = <<>>
  /\ tamper = "none"
  /\ result = FALSE

\* index.js:11-19
Build ==
  /\ pc = "start"
  /\ LET ln == [ i \in 1..Len(whitelistedEmails) |->
                   ToStringHex(keccak256(whitelistedEmails[i])) ]
         ls == MerkleTree(ln, sortPairs)
     IN  /\ leafNodes' = ln
         /\ layers' = ls
         /\ rootHash' = ToStringHex(getRoot(ls))
  /\ pc' = "built"
  /\ UNCHANGED << whitelistedEmails, sortPairs, emailToVerify, proof, vProof,
                  vRoot, tamper, result >>

\* index.js:31-33
GenerateProof ==
  /\ pc = "built"
  /\ \E email \in AllEmails :
       /\ emailToVerify' = email
       /\ proof' = generateMerkleProof(layers, email)
  /\ pc' = "proved"
  /\ UNCHANGED << whitelistedEmails, sortPairs, leafNodes, layers, rootHash,
                  vProof, vRoot, tamper, result >>

\* digests an adversary may substitute
RECURSIVE layerDigests(_, _)
layerDigests(ls, i) ==
  IF i > Len(ls) THEN {}
  ELSE { ls[i][k] : k \in 1..Len(ls[i]) } \cup layerDigests(ls, i + 1)

otherRoots ==
  { getRoot(createHashes(w, sortPairs)) :
      w \in { [ i \in 1..Len(whitelistedEmails) |-> keccak256(e) ] : e \in AllEmails }
            \cup { [ i \in 1..(Len(whitelistedEmails) - 1) |->
                       keccak256(whitelistedEmails[i]) ] } }

digestPool ==
  layerDigests(layers, 1) \cup { keccak256(e) : e \in AllEmails } \cup otherRoots

VerifyGenuine ==
  /\ pc = "proved"
  /\ LET p == proofSteps(layers, emailToVerify, proof)
         r == bufferify(rootHash)
     IN  /\ vProof' = p
         /\ vRoot' = r
         /\ result' = verify(emailToVerify, p, r, sortPairs)
  /\ tamper' = "none"
  /\ pc' = "verified"
  /\ UNCHANGED << whitelistedEmails, sortPairs, leafNodes, layers, rootHash,
                  emailToVerify, proof >>

VerifyTamperedSibling ==
  /\ pc = "proved"
  /\ \E k \in 1..Len(proof), d \in digestPool :
       LET g == proofSteps(layers, emailToVerify, proof)
           p == [ g EXCEPT ![k].data = d ]
           r == bufferify(rootHash)
       IN  /\ d # g[k].data
           /\ vProof' = p
           /\ vRoot' = r
           /\ result' = verify(emailToVerify, p, r, sortPairs)
  /\ tamper' = "sibling"
  /\ pc' = "verified"
  /\ UNCHANGED << whitelistedEmails, sortPairs, leafNodes, layers, rootHash,
                  emailToVerify, proof >>

VerifyTamperedRoot ==
  /\ pc = "proved"
  /\ \E d \in digestPool :
       LET p == proofSteps(layers, emailToVerify, proof)
       IN  /\ d # bufferify(rootHash)
           /\ vProof' = p
           /\ vRoot' = d
           /\ result' = verify(emailToVerify, p, d, sortPairs)
  /\ tamper' = "root"
  /\ pc' = "verified"
  /\ UNCHANGED << whitelistedEmails, sortPairs, leafNodes, layers, rootHash,
                  emailToVerify, proof >>

Next ==
  \/ Build
  \/ GenerateProof
  \/ VerifyGenuine
  \/ VerifyTamperedSibling
  \/ VerifyTamperedRoot

Spec == Init /\ [][Next]_vars

TypeOK ==
  /\ pc \in { "start", "built", "proved", "verified" }
  /\ tamper \in { "none", "sibling", "root" }
  /\ result \in BOOLEAN

\* README.md:78-83: the proof printed for email2@example.com of the whitelist
\* <<1, 2, 3>> with sortPairs is the digest of email1 followed by the digest
\* of email3
ReadmeOutput ==
  (/\ pc \in { "proved", "verified" } /\ sortPairs
   /\ whitelistedEmails = << <<1>>, <<2>>, <<3>> >>
   /\ emailToVerify = <<2>>)
  => proof = << ToStringHex(keccak256(<<1>>)), ToStringHex(keccak256(<<3>>)) >>

\* ---- vocabulary of the properties ----

Built    == pc # "start"
Proved   == pc \in { "proved", "verified" }
N        == Len(whitelistedEmails)
Member(e) == \E i \in 1..N : whitelistedEmails[i] = e

\* 0-based positions of an e-mail in the input
FirstPos(e) == (CHOOSE i \in 1..N : /\ whitelistedEmails[i] = e
                                    /\ \A j \in 1..N : whitelistedEmails[j] = e => i <= j) - 1
LastPos(e)  == (CHOOSE i \in 1..N : /\ whitelistedEmails[i] = e
                                    /\ \A j \in 1..N : whitelistedEmails[j] = e => j <= i) - 1

RECURSIVE Pow2(_)
Pow2(k) == IF k = 0 THEN 1 ELSE 2 * Pow2(k - 1)

\* ceil(log2(n)) for n >= 1
CeilLog2(n) == CHOOSE h \in 0..n : Pow2(h) >= n /\ (h = 0 \/ Pow2(h - 1) < n)
IsPow2(n)   == Pow2(CeilLog2(n)) = n

Xor1(i) == IF i % 2 = 0 THEN i + 1 ELSE i - 1

\* 0-based index, at layer j (1-based), of the node above leaf position pos
PathIndex(pos, j) == pos \div Pow2(j - 1)

\* hash of the concatenation of a and b, sorted byte-wise when sortPairs
PairHash(a, b) ==
  IF sortPairs /\ BufferCompare(b, a) = -1 THEN keccak256(b \o a) ELSE keccak256(a \o b)

Leaf(i) == keccak256(whitelistedEmails[i])

\* ---- C1 ----
\* C1: for every non-empty whitelist and every e-mail in it, the proof that
\* generateMerkleProof returns for the e-mail verifies against the root of
\* the tree built from the whitelist, under the same sortPairs setting.
MembershipSoundness ==
  (pc = "verified" /\ tamper = "none" /\ Member(emailToVerify)) => result = TRUE

\* the last, unpaired e-mail of a three-element whitelist that also holds a
\* duplicate has been verified
MembershipSoundnessWitness ==
  /\ pc = "verified" /\ tamper = "none" /\ result = TRUE
  /\ N = 3
  /\ emailToVerify = whitelistedEmails[3]
  /\ whitelistedEmails[1] = whitelistedEmails[2]
  /\ whitelistedEmails[3] # whitelistedEmails[1]

\* ---- C2 ----
\* C2 as stated: an odd layer is padded with a copy of its last digest before
\* pairing, so the last digest of the next layer is the hash of that digest
\* with itself; for 3 items the root is
\* combine(combine(l1, l2), combine(l3, l3)).
OddPaddingDuplicates ==
  Built =>
    /\ \A i \in 1..(Len(layers) - 1) :
         Len(layers[i]) % 2 = 1 =>
           layers[i + 1][Len(layers[i + 1])] =
             PairHash(layers[i][Len(layers[i])], layers[i][Len(layers[i])])
    /\ N = 3 =>
         bufferify(rootHash) =
           PairHash(PairHash(Leaf(1), Leaf(2)), PairHash(Leaf(3), Leaf(3)))

\* C2 amended: an odd layer's last digest is carried to the next layer
\* unchanged; for 3 items the root is combine(combine(l1, l2), l3).
OddNodeCarriedUp ==
  Built =>
    /\ \A i \in 1..(Len(layers) - 1) :
         Len(layers[i]) % 2 = 1 =>
           layers[i + 1][Len(layers[i + 1])] = layers[i][Len(layers[i])]
    /\ N = 3 =>
         bufferify(rootHash) = PairHash(PairHash(Leaf(1), Leaf(2)), Leaf(3))

OddNodeCarriedUpWitness ==
  /\ Built /\ N = 3
  /\ Len(layers) = 3
  /\ layers[2][2] = Leaf(3)
  /\ whitelistedEmails[1] # whitelistedEmails[2]

\* ---- C3 ----
\* C3 as stated: the proof of every whitelisted e-mail has exactly
\* ceil(log2(n)) steps.
ProofLengthIsHeight ==
  (Proved /\ Member(emailToVerify)) => Len(proof) = CeilLog2(N)

\* C3 amended: the proof has at most ceil(log2(n)) steps, one for each layer
\* below the root in which the node on the e-mail's path has a sibling, and
\* exactly ceil(log2(n)) when n is a power of two; in the whitelist
\* <<1, 2, 3>> e-mails 1 and 2 get 2 steps and e-mail 3 gets 1.
ProofLengthBounded ==
  (Proved /\ Member(emailToVerify)) =>
    LET h   == CeilLog2(N)
        pos == LastPos(emailToVerify)
    IN  /\ Len(layers) = h + 1
        /\ Len(proof) <= h
        /\ IsPow2(N) => Len(proof) = h
        /\ Len(proof) =
             Cardinality({ j \in 1..h : Xor1(PathIndex(pos, j)) < Len(layers[j]) })
        /\ whitelistedEmails = << <<1>>, <<2>>, <<3>> >> =>
             Len(proof) = IF emailToVerify = <<3>> THEN 1 ELSE 2

ProofLengthBoundedWitness ==
  /\ Proved
  /\ whitelistedEmails = << <<1>>, <<2>>, <<3>> >>
  /\ emailToVerify = <<3>>
  /\ Len(proof) = 1

\* ---- C4 ----
\* C4 as stated: proof generation yields no proof value for an e-mail whose
\* hash is not a leaf (it fails instead).
NonMemberGetsNoProof ==
  Proved => Member(emailToVerify)

\* C4 amended: proof generation for an e-mail whose hash is not a leaf does
\* not fail; it returns the empty proof.
NonMemberGetsEmptyProof ==
  (Proved /\ ~Member(emailToVerify)) => proof = <<>>

NonMemberGetsEmptyProofWitness ==
  /\ Proved /\ ~Member(emailToVerify)
  /\ N >= 2
  /\ proof = <<>>

\* ---- C5 ----
\* C5 as stated: a tree and a root exist only for a non-empty input.
EmptyInputBuildsNothing ==
  Built => N >= 1

\* C5 amended: construction from an empty input does not fail; it yields a
\* tree whose only layer is empty and whose root is the empty byte string.
\* For a non-empty input the top layer holds exactly the root.
EmptyInputBuildsEmptyTree ==
  Built =>
    /\ N = 0 => (layers = << <<>> >> /\ rootHash = ToStringHex(<<>>))
    /\ N >= 1 => (/\ Len(layers[Len(layers)]) = 1
                  /\ rootHash = ToStringHex(layers[Len(layers)][1])
                  /\ bufferify(rootHash) # <<>>)

EmptyInputBuildsEmptyTreeWitness ==
  Built /\ N = 0 /\ layers = << <<>> >>

\* ---- C6 ----
\* C6: the genuine proof of a whitelisted e-mail with one step's sibling
\* replaced by a different digest, or checked against a different root, does
\* not verify.
TamperDetection ==
  (pc = "verified" /\ tamper # "none" /\ Member(emailToVerify)) => result = FALSE

TamperDetectionWitness ==
  /\ pc = "verified" /\ tamper = "sibling" /\ Member(emailToVerify)
  /\ Len(vProof) >= 2
  /\ result = FALSE

\* ---- C7 ----
\* C7: the root of a tree built from exactly one e-mail is the hash of that
\* e-mail, and the proof generated for it is empty.
SingleLeaf ==
  N = 1 =>
    /\ Built => (rootHash = ToStringHex(Leaf(1)) /\ layers = << << Leaf(1) >> >>)
    /\ (Proved /\ emailToVerify = whitelistedEmails[1]) => proof = <<>>

SingleLeafWitness ==
  /\ N = 1 /\ Proved
  /\ emailToVerify = whitelistedEmails[1]
  /\ proof = <<>>
  /\ rootHash = ToStringHex(Leaf(1))

\* ---- C8 ----
\* the whitelist with positions 2k-1 and 2k (1-based) exchanged
SwapSiblings(w, k) ==
  [ i \in 1..Len(w) |-> IF i = 2 * k - 1 THEN w[2 * k]
                        ELSE IF i = 2 * k THEN w[2 * k - 1] ELSE w[i] ]

RootOf(w, sp) ==
  ToStringHex(getRoot(MerkleTree([ i \in 1..Len(w) |-> ToStringHex(keccak256(w[i])) ], sp)))

\* C8: with sortPairs, exchanging two e-mails that are paired as siblings
\* leaves the root unchanged; without sortPairs the exchange changes the root
\* of the whitelist <<1, 2>>.
SortedPairsInvariance ==
  Built =>
    /\ sortPairs =>
         \A k \in 1..(N \div 2) : RootOf(SwapSiblings(whitelistedEmails, k), TRUE) = rootHash
    /\ (~sortPairs /\ whitelistedEmails = << <<1>>, <<2>> >>) =>
         RootOf(SwapSiblings(whitelistedEmails, 1), FALSE) # rootHash

\* a sorted tree whose second pair holds two different e-mails
SortedPairsInvarianceWitness ==
  /\ Built /\ sortPairs /\ N = 4
  /\ whitelistedEmails[3] # whitelistedEmails[4]
  /\ RootOf(SwapSiblings(whitelistedEmails, 2), TRUE) = rootHash

\* ---- C9 ----
BottomAndTop ==
  /\ Len(layers[1]) = N
  /\ \A i \in 1..N : layers[1][i] = Leaf(i)
  /\ Len(layers[Len(layers)]) = 1

\* C9 as stated: the bottom layer is the e-mail hashes in input order, the
\* top layer has one digest, and every digest at position k of layer i+1 is
\* the hash of the concatenation of positions 2k and 2k+1 of layer i.
LayersAllPaired ==
  (Built /\ N >= 1) =>
    /\ BottomAndTop
    /\ \A i \in 1..(Len(layers) - 1) : \A k \in 1..Len(layers[i + 1]) :
         /\ 2 * k <= Len(layers[i])
         /\ layers[i + 1][k] = PairHash(layers[i][2 * k - 1], layers[i][2 * k])

\* C9 amended: as stated, except that the last digest of an odd layer has no
\* partner and appears unchanged as the last digest of the next layer.
LayersPairedOrCarried ==
  (Built /\ N >= 1) =>
    /\ BottomAndTop
    /\ \A i \in 1..(Len(layers) - 1) :
         /\ Len(layers[i + 1]) = (Len(layers[i]) + 1) \div 2
         /\ \A k \in 1..Len(layers[i + 1]) :
              layers[i + 1][k] =
                IF 2 * k <= Len(layers[i])
                THEN PairHash(layers[i][2 * k - 1], layers[i][2 * k])
                ELSE layers[i][2 * k - 1]

LayersPairedOrCarriedWitness ==
  /\ Built /\ N = 4 /\ sortPairs
  /\ Len(layers) = 3
  /\ whitelistedEmails[1] = whitelistedEmails[3]
  /\ BufferCompare(Leaf(1), Leaf(2)) = 1

\* ---- C10 ----
\* C10 as stated: the proof starts at the first leaf equal to the e-mail's
\* hash and has, for every layer j below the root, the digest of layer j at
\* index (position XOR 1), the position being halved after each layer.
ProofPathFirstMatch ==
  (Proved /\ Member(emailToVerify)) =>
    LET pos == FirstPos(emailToVerify)
    IN  /\ Len(proof) = Len(layers) - 1
        /\ \A j \in 1..Len(proof) :
             /\ Xor1(PathIndex(pos, j)) < Len(layers[j])
             /\ proof[j] = ToStringHex(layers[j][Xor1(PathIndex(pos, j)) + 1])

\* the layers below the root, in order, in which the path from pos has a
\* sibling
RECURSIVE SiblingLayers(_, _)
SiblingLayers(pos, j) ==
  IF j >= Len(layers) THEN <<>>
  ELSE (IF Xor1(PathIndex(pos, j)) < Len(layers[j]) THEN << j >> ELSE <<>>)
       \o SiblingLayers(pos, j + 1)

\* C10 amended: the proof starts at the last leaf equal to the e-mail's hash
\* and has, leaf side first, one step for each layer j below the root in
\* which index (position XOR 1) exists: the digest of layer j at that index,
\* the position being halved after each layer.
ProofPathLastMatch ==
  (Proved /\ Member(emailToVerify)) =>
    LET pos == LastPos(emailToVerify)
        sl  == SiblingLayers(pos, 1)
    IN  /\ Len(proof) = Len(sl)
        /\ \A s \in 1..Len(sl) :
             proof[s] = ToStringHex(layers[sl[s]][Xor1(PathIndex(pos, sl[s])) + 1])

\* a duplicated e-mail whose first and last occurrence have different proofs
ProofPathLastMatchWitness ==
  /\ Proved /\ N = 3
  /\ whitelistedEmails[1] = emailToVerify
  /\ whitelistedEmails[3] = emailToVerify
  /\ whitelistedEmails[2] # emailToVerify
  /\ Len(proof) = 1
====
